---- MODULE Spec2Model ----
(***************************************************************************)
(* Button-press logger firmware (src/src/main.cpp).                        *)
(*                                                                         *)
(* Three contexts run against the same globals:                            *)
(*   - the main task: setup() once per boot, then loop() forever           *)
(*     (handleOnButtonPress, processFifoBuffer), one statement per step;   *)
(*   - the GPIO interrupt onButtonPress, which runs to completion between  *)
(*     any two statements of the main task;                                *)
(*   - the web server task, which runs the HTTP handlers and the           *)
(*     websocket's connect event one at a time, one statement per step,    *)
(*     in parallel with the main task.                                     *)
(* Flash (the two SPIFFS files) survives a restart, RAM does not.          *)
(***************************************************************************)
EXTENDS Integers, Sequences, FiniteSets, TLC

\* ------------------------------------------------------------------ bounds
MaxEdges == 3        \* falling edges, the button alone
MaxPresses == 1      \* falling edges over all boots, the whole system
MaxBoots == 2        \* boots (power-on plus restarts)
MaxWifiLines == 1    \* lines of the credentials file

\* --------------------------------------------------------- program constants
RESET_HOLD_TIME == 5000
DEBOUNCE_DELAY == 250
MaxAttempts == 10

\* ulong is 32 bits wide on the target. A value is held as <<high half, low
\* half>>, each half 16 bits wide.
Half == 2 ^ 16
U32(n) == <<(n \div Half) % Half, n % Half>>
Add32(a, b) ==
  LET lo == a[2] + b[2]
  IN  <<(a[1] + b[1] + (lo \div Half)) % Half, lo % Half>>
Sub32(a, b) ==
  LET lo == a[2] - b[2]
  IN  <<(a[1] - b[1] - (IF lo < 0 THEN 1 ELSE 0)) % Half, lo % Half>>
Gt32(a, b) == a[1] > b[1] \/ (a[1] = b[1] /\ a[2] > b[2])
\* 1 when a + b passes 2^32, else 0.
Carry32(a, b) == (a[1] + b[1] + ((a[2] + b[2]) \div Half)) \div Half
Lt32(a, b) == Gt32(b, a)

\* Gaps, in ms, between one reading of millis() in the interrupt and the next;
\* the last one is 2^32 - 100.
EdgeGaps == {U32(0), U32(100), U32(250), U32(251), U32(300),
             <<Half - 1, Half - 100>>}
\* The gaps of the whole system's runs: a bounce and a new press.
PressGaps == {U32(100), U32(300)}
\* Wall-clock readings, to the second: two presses may share one.
Stamps == {1, 2}
Credentials == {"good", "bad"}
\* The action field of a /serviceMode request ("missing": no such field).
Actions == {"missing", "reset", "resetWiFi", "other"}

VARIABLES
  \* flash
  fsMounted,              \* SPIFFS.begin(true) succeeded: files can be opened
  logFile,                \* /ButtonLog.txt: [exists, lines]
  wifiFile,               \* config::wifiConfigFile: [exists, lines]
  \* RAM: globals
  buttonLog,              \* std::queue<String>
  isAccessPointMode,
  numberOfPresses,        \* button1.numberOfPresses
  isPressed,              \* button1.isPressed
  currentInterruptTime,
  previousInterruptTime,
  \* RAM: main task
  pc,                     \* position of the main task
  connected,              \* WiFi.status() == WL_CONNECTED
  attempts,               \* waitForNTPSync's loop counter
  ntpSynced,              \* waitForNTPSync has returned true
  isrAttached,            \* attachInterrupt has run
  serverUp,               \* server.begin() has run
  reg,                    \* the value numberOfPresses++ has loaded
  buttonPressTimestamp,   \* processFifoBuffer's local
  jsonString,             \* processFifoBuffer's local, <<>> or <<line>>
  \* RAM: web server task
  hpc,                    \* position of the handler in progress
  request,                \* the last request taken up
  response,               \* status of the last response sent (0: none yet)
  \* RAM: the websocket and its one viewer
  wpc,                    \* "none": no client; else where its connect
                          \* event is
  wsPos,                  \* lines handleWebSocketEvent has read from its file
  received,               \* messages queued to the client: [line, live]
  \* history
  boots,                  \* boots so far
  edges,                  \* falling edges so far, over all boots
  edgeTimes,              \* millis() at each edge since boot
  acceptedTimes,          \* millis() at each accepted edge since boot
  pushed,                 \* timestamps pushed onto buttonLog since boot
  quietEdges,             \* no edge since boot found the main task busy
  sinceReset,             \* records appended since the log was last removed
  clean,                  \* the log was empty at first boot, or has been reset
  resetsInARow,           \* resets answered since the last press or other
                          \* request, up to 2
  pushedCounts,           \* the counter right after the increment that went
                          \* with each push since boot
  wraps,                  \* times millis() had wrapped since boot, at the
                          \* last edge
  wrapsAtAccepted         \* the same at the last accepted edge

flash == <<fsMounted, logFile, wifiFile>>
globals == <<buttonLog, isAccessPointMode, numberOfPresses, isPressed,
             currentInterruptTime, previousInterruptTime>>
mainTask == <<pc, connected, attempts, isrAttached, serverUp, reg,
              buttonPressTimestamp, jsonString>>
webTask == <<hpc, request, response>>
viewer == <<wpc, wsPos, received>>
history == <<boots, edges, edgeTimes, acceptedTimes, pushed, quietEdges,
             sinceReset, clean>>
vars == <<flash, globals, mainTask, webTask, viewer, history, resetsInARow,
          pushedCounts, ntpSynced, wraps, wrapsAtAccepted>>

\* ------------------------------------------------------------------- files
NoFile == [exists |-> FALSE, lines |-> <<>>]
EmptyFile == [exists |-> TRUE, lines |-> <<>>]
\* A line that is not a JSON document (a partial write, foreign text).
Junk == [valid |-> FALSE, ts |-> 0, count |-> 0]

\* serializeJson of {buttonPressTimestamp, buttonPressCount}, as one line.
SerializeJson(ts, count) == [valid |-> TRUE, ts |-> ts, count |-> count]

\* deserializeJson followed by doc["buttonPressCount"].as<ulong>(): the empty
\* string and a line that is no JSON leave the document null, which reads 0.
ParseCount(content) ==
  IF content = <<>> THEN 0
  ELSE IF content[1].valid THEN content[1].count
  ELSE 0

\* readFileContents: "" when the open fails, else the last line read.
RECURSIVE LastRead(_, _)
LastRead(lines, content) ==
  IF lines = <<>> THEN content
  ELSE LastRead(Tail(lines), <<Head(lines)>>)

readFileContents(file) ==
  IF ~fsMounted \/ ~file.exists THEN <<>>
  ELSE LastRead(file.lines, <<>>)

\* The open with FILE_WRITE, which truncates.
appendToFileTruncating(file, data) ==
  IF ~fsMounted THEN file
  ELSE [exists |-> TRUE, lines |-> <<data>>]

\* appendToFile: nothing when the open fails, else one more line (FILE_APPEND
\* creates the file).
appendToFile(file, data) ==
  IF ~fsMounted THEN file
  ELSE [exists |-> TRUE, lines |-> Append(file.lines, data)]

\* SPIFFS.remove
removeFile(file) == IF ~fsMounted THEN file ELSE NoFile

\* The count taken from the number of lines instead of the last record.
loadButtonCountByLines == IF fsMounted THEN Len(logFile.lines) ELSE 0
loadButtonCountFromFile == ParseCount(readFileContents(logFile))

\* What a reader of the log finds in it.
LogLines == IF fsMounted /\ logFile.exists THEN logFile.lines ELSE <<>>
Last(seq) == seq[Len(seq)]
IsRecord(line) == line.valid
\* The buttonPressCount, and the buttonPressTimestamp, of each record.
RecordCounts == [i \in 1 .. Len(SelectSeq(LogLines, IsRecord)) |->
                   SelectSeq(LogLines, IsRecord)[i].count]
RecordStamps == [i \in 1 .. Len(SelectSeq(LogLines, IsRecord)) |->
                   SelectSeq(LogLines, IsRecord)[i].ts]
IsPrefix(a, b) == Len(a) <= Len(b) /\ a = SubSeq(b, 1, Len(a))

\* ---------------------------------------------------------------- debounce
\* Line 120: unsigned subtraction, then the comparison with the delay.
Elapsed(cur, prev) == Sub32(cur, prev)

\* The comparison without the subtraction.
AcceptsNoSubtract(cur, prev) == Gt32(cur, U32(DEBOUNCE_DELAY))
\* The comparison with the other delay of the file.
AcceptsHoldTime(cur, prev) == Gt32(Elapsed(cur, prev), U32(RESET_HOLD_TIME))
\* The comparison of the two readings as they are, the delay added to the
\* earlier one.
AcceptsNoWrap(cur, prev) == Gt32(cur, Add32(prev, U32(DEBOUNCE_DELAY)))
Accepts(cur, prev) == Gt32(Elapsed(cur, prev), U32(DEBOUNCE_DELAY))

\* ----------------------------------------------------------------- initial
RamInit ==
  /\ buttonLog = <<>>
  /\ isAccessPointMode = FALSE
  /\ numberOfPresses = 0
  /\ isPressed = FALSE
  /\ currentInterruptTime = U32(0)
  /\ previousInterruptTime = U32(0)
  /\ pc = "boot"
  /\ connected = FALSE
  /\ attempts = 0
  /\ ntpSynced = FALSE
  /\ isrAttached = FALSE
  /\ serverUp = FALSE
  /\ reg = 0
  /\ buttonPressTimestamp = 0
  /\ jsonString = <<>>
  /\ hpc = "idle"
  /\ request = "none"
  /\ response = 0
  /\ wpc = "none"
  /\ wsPos = 0
  /\ received = <<>>

Init ==
  /\ fsMounted \in BOOLEAN
  /\ logFile \in {NoFile, EmptyFile, [exists |-> TRUE, lines |-> <<Junk>>]}
  /\ wifiFile \in {NoFile} \cup
                  {[exists |-> TRUE, lines |-> <<c>>] : c \in Credentials}
  /\ RamInit
  /\ boots = 1
  /\ edges = 0
  /\ edgeTimes = <<>>
  /\ acceptedTimes = <<>>
  /\ pushed = <<>>
  /\ quietEdges = TRUE
  /\ sinceReset = 0
  /\ clean = (logFile.lines = <<>>)
  /\ resetsInARow = 0
  /\ pushedCounts = <<>>
  /\ wraps = 0
  /\ wrapsAtAccepted = 0

\* A restart (ESP.restart(), or power removed and restored): RAM starts over.
Reboot ==
  /\ buttonLog' = <<>>
  /\ isAccessPointMode' = FALSE
  /\ numberOfPresses' = 0
  /\ isPressed' = FALSE
  /\ currentInterruptTime' = U32(0)
  /\ previousInterruptTime' = U32(0)
  /\ pc' = "boot"
  /\ connected' = FALSE
  /\ attempts' = 0
  /\ ntpSynced' = FALSE
  /\ isrAttached' = FALSE
  /\ serverUp' = FALSE
  /\ reg' = 0
  /\ buttonPressTimestamp' = 0
  /\ jsonString' = <<>>
  /\ hpc' = "idle"
  /\ request' = "none"
  /\ response' = 0
  /\ wpc' = "none"
  /\ wsPos' = 0
  /\ received' = <<>>
  /\ boots' = boots + 1
  /\ edgeTimes' = <<>>
  /\ acceptedTimes' = <<>>
  /\ pushed' = <<>>
  /\ quietEdges' = TRUE
  /\ resetsInARow' = 0
  /\ pushedCounts' = <<>>
  /\ wraps' = 0
  /\ wrapsAtAccepted' = 0

\* ------------------------------------------------------------------- setup
\* setup(), lines 70-85: the mode is chosen from the stored credentials.
\* startAccessPoint() also starts the web server.
setup ==
  /\ pc = "boot"
  /\ IF readFileContents(wifiFile) = <<>>
     THEN /\ isAccessPointMode' = TRUE
          /\ serverUp' = TRUE
          /\ pc' = "web"
     ELSE /\ pc' = "wifi"
          /\ UNCHANGED <<isAccessPointMode, serverUp>>
  /\ UNCHANGED <<flash, buttonLog, numberOfPresses, isPressed,
                 currentInterruptTime, previousInterruptTime, connected,
                 attempts, isrAttached, reg, buttonPressTimestamp, jsonString,
                 webTask, history, viewer, resetsInARow, pushedCounts,
                 ntpSynced, wraps, wrapsAtAccepted>>

\* setupWiFi(): the connection is up only with credentials the network takes,
\* and only if the network answers within the 10 s the loop waits.
setupWiFi ==
  /\ pc = "wifi"
  /\ IF readFileContents(wifiFile) = <<>>
     THEN /\ serverUp' = TRUE
          /\ UNCHANGED connected
     ELSE /\ \E up \in BOOLEAN :
               connected' = (readFileContents(wifiFile)[1] = "good" /\ up)
          /\ UNCHANGED serverUp
  /\ pc' = "ntp"
  /\ UNCHANGED <<flash, globals, attempts, isrAttached, reg,
                 buttonPressTimestamp, jsonString, webTask, history, viewer,
                 resetsInARow, pushedCounts, ntpSynced, wraps,
                 wrapsAtAccepted>>

\* setupNTP(): nothing in access point mode; otherwise one round of
\* waitForNTPSync's loop, in which getLocalTime answers or does not (the clock
\* may also be left set by an earlier run).
setupNTP ==
  /\ pc = "ntp"
  /\ IF isAccessPointMode
     THEN pc' = "web" /\ UNCHANGED <<attempts, ntpSynced>>
     ELSE /\ attempts < MaxAttempts
          /\ \E ok \in BOOLEAN :
               IF ok THEN /\ pc' = "web"
                          /\ attempts' = 0
                          /\ ntpSynced' = TRUE
                     ELSE /\ pc' = pc
                          /\ attempts' = attempts + 1
                          /\ ntpSynced' = ntpSynced
  /\ UNCHANGED <<flash, globals, connected, isrAttached, serverUp, reg,
                 buttonPressTimestamp, jsonString, webTask, history, viewer,
                 resetsInARow, pushedCounts, wraps, wrapsAtAccepted>>

\* waitForNTPSync returned false and setup() goes on all the same.
setupNTP_goOn ==
  /\ pc = "ntp"
  /\ ~isAccessPointMode
  /\ attempts = MaxAttempts
  /\ pc' = "web"
  /\ attempts' = 0
  /\ UNCHANGED <<flash, globals, connected, isrAttached, serverUp, reg,
                 buttonPressTimestamp, jsonString, webTask, history, viewer,
                 resetsInARow, pushedCounts, ntpSynced, wraps,
                 wrapsAtAccepted>>

\* waitForNTPSync returned false: setupNTP calls ESP.restart().
setupNTP_restart ==
  /\ pc = "ntp"
  /\ ~isAccessPointMode
  /\ attempts = MaxAttempts
  /\ boots < MaxBoots
  /\ Reboot
  /\ UNCHANGED <<flash, edges, sinceReset, clean>>

\* setup(), lines 87-90: setupWebServer() and attachInterrupt().
setupWebServer ==
  /\ pc = "web"
  /\ serverUp' = TRUE
  /\ isrAttached' = TRUE
  /\ pc' = "load"
  /\ UNCHANGED <<flash, globals, connected, attempts, reg,
                 buttonPressTimestamp, jsonString, webTask, history, viewer,
                 resetsInARow, pushedCounts, ntpSynced, wraps,
                 wrapsAtAccepted>>

\* setup(), line 92.
setup_load ==
  /\ pc = "load"
  /\ numberOfPresses' = loadButtonCountFromFile
  /\ pc' = "H_test"
  /\ UNCHANGED <<flash, buttonLog, isAccessPointMode, isPressed,
                 currentInterruptTime, previousInterruptTime, connected,
                 attempts, isrAttached, serverUp, reg, buttonPressTimestamp,
                 jsonString, webTask, history, viewer, resetsInARow,
                 pushedCounts, ntpSynced, wraps, wrapsAtAccepted>>

\* Power is removed and restored.
Restart ==
  /\ boots < MaxBoots
  /\ Reboot
  /\ UNCHANGED <<flash, edges, sinceReset, clean>>

\* The main task is at the top of loop() with nothing pending.
Quiescent == pc = "H_test" /\ ~isPressed /\ buttonLog = <<>>

\* --------------------------------------------------------------- interrupt
\* The counter incremented in the interrupt, on an accepted edge.
onButtonPressCounting(gap) ==
  /\ isrAttached
  /\ LET now == Add32(currentInterruptTime, gap) IN
       /\ currentInterruptTime' = now
       /\ edgeTimes' = Append(edgeTimes, now)
       /\ edges' = edges + 1
       /\ wraps' = wraps + Carry32(currentInterruptTime, gap)
       /\ quietEdges' = (quietEdges /\ Quiescent)
       /\ resetsInARow' = 0
       /\ IF Accepts(now, previousInterruptTime)
          THEN /\ isPressed' = TRUE
               /\ previousInterruptTime' = now
               /\ wrapsAtAccepted' = wraps + Carry32(currentInterruptTime, gap)
               /\ numberOfPresses' = numberOfPresses + 1
               /\ acceptedTimes' = Append(acceptedTimes, now)
          ELSE UNCHANGED <<isPressed, previousInterruptTime, numberOfPresses,
                           acceptedTimes, wrapsAtAccepted>>
  /\ UNCHANGED <<flash, buttonLog, isAccessPointMode,
                 mainTask, webTask, boots, pushed, sinceReset, clean, viewer,
                 pushedCounts, ntpSynced>>

\* onButtonPress, with millis() reading gap ms after its last reading.
onButtonPress(gap) ==
  /\ isrAttached
  /\ LET now == Add32(currentInterruptTime, gap) IN
       /\ currentInterruptTime' = now
       /\ edgeTimes' = Append(edgeTimes, now)
       /\ edges' = edges + 1
       /\ wraps' = wraps + Carry32(currentInterruptTime, gap)
       /\ quietEdges' = (quietEdges /\ Quiescent)
       /\ resetsInARow' = 0
       /\ IF Accepts(now, previousInterruptTime)
          THEN /\ isPressed' = TRUE
               /\ previousInterruptTime' = now
               /\ wrapsAtAccepted' = wraps + Carry32(currentInterruptTime, gap)
               /\ acceptedTimes' = Append(acceptedTimes, now)
          ELSE UNCHANGED <<isPressed, previousInterruptTime, acceptedTimes,
                           wrapsAtAccepted>>
  /\ UNCHANGED <<flash, buttonLog, isAccessPointMode, numberOfPresses,
                 mainTask, webTask, boots, pushed, sinceReset, clean, viewer,
                 pushedCounts, ntpSynced>>

\* --------------------------------------------------------------- main loop
\* handleOnButtonPress, line 129: the flag is read.
handleOnButtonPress_test ==
  /\ pc = "H_test"
  /\ pc' = IF isPressed THEN "H_push" ELSE "P_test"
  /\ UNCHANGED <<flash, globals, connected, attempts, isrAttached, serverUp,
                 reg, buttonPressTimestamp, jsonString, webTask, history,
                 viewer, resetsInARow, pushedCounts, ntpSynced, wraps,
                 wrapsAtAccepted>>

\* Lines 132-140: the wall clock is read and formatted, and pushed.
handleOnButtonPress_push ==
  /\ pc = "H_push"
  /\ \E ts \in Stamps :
       /\ buttonLog' = Append(buttonLog, ts)
       /\ pushed' = Append(pushed, ts)
  /\ pc' = "H_load"
  /\ UNCHANGED <<flash, isAccessPointMode, numberOfPresses, isPressed,
                 currentInterruptTime, previousInterruptTime, connected,
                 attempts, isrAttached, serverUp, reg, buttonPressTimestamp,
                 jsonString, webTask, boots, edges, edgeTimes, acceptedTimes,
                 quietEdges, sinceReset, clean, viewer, resetsInARow,
                 pushedCounts, ntpSynced, wraps, wrapsAtAccepted>>

\* Line 141, numberOfPresses++: the load ...
handleOnButtonPress_load ==
  /\ pc = "H_load"
  /\ reg' = numberOfPresses
  /\ pc' = "H_store"
  /\ UNCHANGED <<flash, globals, connected, attempts, isrAttached, serverUp,
                 buttonPressTimestamp, jsonString, webTask, history, viewer,
                 resetsInARow, pushedCounts, ntpSynced, wraps,
                 wrapsAtAccepted>>

\* ... and the store.
handleOnButtonPress_store ==
  /\ pc = "H_store"
  /\ numberOfPresses' = reg + 1
  /\ pushedCounts' = Append(pushedCounts, reg + 1)
  /\ reg' = 0
  /\ pc' = "H_clear"
  /\ UNCHANGED <<flash, buttonLog, isAccessPointMode, isPressed,
                 currentInterruptTime, previousInterruptTime, connected,
                 attempts, isrAttached, serverUp, buttonPressTimestamp,
                 jsonString, webTask, history, viewer, resetsInARow,
                 ntpSynced, wraps, wrapsAtAccepted>>

\* Line 142: the flag is cleared.
handleOnButtonPress_clear ==
  /\ pc = "H_clear"
  /\ isPressed' = FALSE
  /\ pc' = "P_test"
  /\ UNCHANGED <<flash, buttonLog, isAccessPointMode, numberOfPresses,
                 currentInterruptTime, previousInterruptTime, connected,
                 attempts, isrAttached, serverUp, reg, buttonPressTimestamp,
                 jsonString, webTask, history, viewer, resetsInARow,
                 pushedCounts, ntpSynced, wraps, wrapsAtAccepted>>

\* processFifoBuffer, lines 149-152: the loop test, front() and pop(). With
\* the queue empty the function returns and loop() starts over.
processFifoBuffer_pop ==
  /\ pc = "P_test"
  /\ IF buttonLog = <<>>
     THEN /\ pc' = "H_test"
          /\ UNCHANGED <<buttonLog, buttonPressTimestamp>>
     ELSE /\ buttonPressTimestamp' = Head(buttonLog)
          /\ buttonLog' = Tail(buttonLog)
          /\ pc' = "P_doc"
  /\ UNCHANGED <<flash, isAccessPointMode, numberOfPresses, isPressed,
                 currentInterruptTime, previousInterruptTime, connected,
                 attempts, isrAttached, serverUp, reg, jsonString, webTask,
                 history, viewer, resetsInARow, pushedCounts, ntpSynced,
                 wraps, wrapsAtAccepted>>

\* Lines 156-161: the record is built from the popped timestamp and the
\* counter as it is now.
processFifoBuffer_doc ==
  /\ pc = "P_doc"
  /\ jsonString' = <<SerializeJson(buttonPressTimestamp, numberOfPresses)>>
  /\ pc' = "P_send"
  /\ UNCHANGED <<flash, globals, connected, attempts, isrAttached, serverUp,
                 reg, buttonPressTimestamp, webTask, history, viewer,
                 resetsInARow, pushedCounts, ntpSynced, wraps,
                 wrapsAtAccepted>>

\* Line 163: ws.textAll queues the record to every connected client.
processFifoBuffer_send ==
  /\ pc = "P_send"
  /\ received' = IF wpc = "none" THEN received
                 ELSE Append(received, [line |-> jsonString[1], live |-> TRUE])
  /\ pc' = "P_append"
  /\ UNCHANGED <<flash, globals, connected, attempts, isrAttached, serverUp,
                 reg, buttonPressTimestamp, jsonString, webTask, wpc, wsPos,
                 history, resetsInARow, pushedCounts, ntpSynced, wraps,
                 wrapsAtAccepted>>

\* Line 164: appendToFile.
processFifoBuffer_append ==
  /\ pc = "P_append"
  /\ logFile' = appendToFile(logFile, jsonString[1])
  /\ sinceReset' = IF fsMounted THEN sinceReset + 1 ELSE sinceReset
  /\ buttonPressTimestamp' = 0
  /\ jsonString' = <<>>
  /\ pc' = "P_test"
  /\ UNCHANGED <<fsMounted, wifiFile, globals, connected, attempts,
                 isrAttached, serverUp, reg, webTask, boots, edges, edgeTimes,
                 acceptedTimes, pushed, quietEdges, clean, viewer,
                 resetsInARow, pushedCounts, ntpSynced, wraps,
                 wrapsAtAccepted>>

\* ---------------------------------------------------------- web server task
\* handleRootRequest: the static page.
handleRootRequest ==
  /\ serverUp
  /\ hpc = "idle"
  /\ request' = "root"
  /\ response' = 200
  /\ resetsInARow' = 0
  /\ UNCHANGED <<flash, globals, mainTask, hpc, history, viewer, pushedCounts,
                 ntpSynced, wraps, wrapsAtAccepted>>

\* Every action that is present taken for "reset".
handleServiceModeRequestAnyAction(action) ==
  /\ serverUp
  /\ hpc = "idle"
  /\ request' = action
  /\ resetsInARow' = IF action = "reset" THEN resetsInARow ELSE 0
  /\ IF action # "missing"
     THEN hpc' = "remove" /\ response' = 0
     ELSE hpc' = "idle" /\ response' = 400
  /\ UNCHANGED <<flash, globals, mainTask, history, viewer, pushedCounts,
                 ntpSynced, wraps, wrapsAtAccepted>>

\* handleServiceModeRequest, lines 335-342 and 351: the action is looked at.
\* Only "reset" goes on; a missing field and every other value answer 400.
handleServiceModeRequest(action) ==
  /\ serverUp
  /\ hpc = "idle"
  /\ request' = action
  /\ resetsInARow' = IF action = "reset" THEN resetsInARow ELSE 0
  /\ IF action = "reset"
     THEN hpc' = "remove" /\ response' = 0
     ELSE hpc' = "idle" /\ response' = 400
  /\ UNCHANGED <<flash, globals, mainTask, history, viewer, pushedCounts,
                 ntpSynced, wraps, wrapsAtAccepted>>

\* Line 345: SPIFFS.remove.
handleServiceModeRequest_remove ==
  /\ hpc = "remove"
  /\ logFile' = removeFile(logFile)
  /\ IF fsMounted
     THEN sinceReset' = 0 /\ clean' = TRUE
     ELSE UNCHANGED <<sinceReset, clean>>
  /\ hpc' = "zero"
  /\ UNCHANGED <<fsMounted, wifiFile, globals, mainTask, request, response,
                 boots, edges, edgeTimes, acceptedTimes, pushed, quietEdges,
                 viewer, resetsInARow, pushedCounts, ntpSynced, wraps,
                 wrapsAtAccepted>>

\* Line 346: the counter is zeroed.
handleServiceModeRequest_zero ==
  /\ hpc = "zero"
  /\ numberOfPresses' = 0
  /\ hpc' = "send"
  /\ UNCHANGED <<flash, buttonLog, isAccessPointMode, isPressed,
                 currentInterruptTime, previousInterruptTime, mainTask,
                 request, response, history, viewer, resetsInARow,
                 pushedCounts, ntpSynced, wraps, wrapsAtAccepted>>

\* Line 347: the answer.
handleServiceModeRequest_send ==
  /\ hpc = "send"
  /\ response' = 200
  /\ resetsInARow' = IF resetsInARow < 2 THEN resetsInARow + 1 ELSE 2
  /\ hpc' = "idle"
  /\ UNCHANGED <<flash, globals, mainTask, request, history, viewer,
                 pushedCounts, ntpSynced, wraps, wrapsAtAccepted>>

\* The /wifiConfig handler, lines 177-181: ssid or password is missing.
wifiConfig_missing ==
  /\ serverUp
  /\ hpc = "idle"
  /\ request' = "wifiConfig"
  /\ response' = 400
  /\ resetsInARow' = 0
  /\ UNCHANGED <<flash, globals, mainTask, hpc, history, viewer, pushedCounts,
                 ntpSynced, wraps, wrapsAtAccepted>>

\* The /wifiConfig handler, lines 183-205. The credentials are saved before
\* the connection is tried; a connection restarts the device.
wifiConfig(cred, up) ==
  /\ serverUp
  /\ hpc = "idle"
  /\ Len(wifiFile.lines) < MaxWifiLines
  /\ wifiFile' = appendToFile(wifiFile, cred)
  /\ IF cred = "good" /\ up
     THEN /\ boots < MaxBoots
          /\ Reboot
          /\ UNCHANGED <<fsMounted, logFile, edges, sinceReset, clean>>
     ELSE /\ request' = "wifiConfig"
          /\ response' = 500
          /\ resetsInARow' = 0
          /\ connected' = FALSE
          /\ UNCHANGED <<fsMounted, logFile, globals, pc, attempts,
                         isrAttached, serverUp, reg, buttonPressTimestamp,
                         jsonString, hpc, history, viewer, pushedCounts,
                         ntpSynced, wraps, wrapsAtAccepted>>

\* ------------------------------------------------------------- websocket
\* A client connects to /ws: the server adds it to its clients, connected,
\* and then calls handleWebSocketEvent with WS_EVT_CONNECT.
handleWebSocketEvent_connect ==
  /\ serverUp
  /\ hpc = "idle"
  /\ wpc = "none"
  /\ wpc' = "open"
  /\ UNCHANGED <<flash, globals, mainTask, webTask, wsPos, received, history,
                 resetsInARow, pushedCounts, ntpSynced, wraps,
                 wrapsAtAccepted>>

\* Lines 312-317: the log is opened; the handler returns if that fails.
handleWebSocketEvent_open ==
  /\ wpc = "open"
  /\ wpc' = IF fsMounted /\ logFile.exists THEN "replay" ELSE "done"
  /\ wsPos' = 0
  /\ UNCHANGED <<flash, globals, mainTask, webTask, received, history,
                 resetsInARow, pushedCounts, ntpSynced, wraps,
                 wrapsAtAccepted>>

\* Lines 320-329: one round of the loop, which sends the next line, or the
\* end of the file, where the handler returns.
handleWebSocketEvent_line ==
  /\ wpc = "replay"
  /\ IF wsPos < Len(logFile.lines)
     THEN /\ received' = Append(received, [line |-> logFile.lines[wsPos + 1],
                                           live |-> FALSE])
          /\ wsPos' = wsPos + 1
          /\ wpc' = wpc
     ELSE /\ wpc' = "done"
          /\ UNCHANGED <<wsPos, received>>
  /\ UNCHANGED <<flash, globals, mainTask, webTask, history, resetsInARow,
                 pushedCounts, ntpSynced, wraps, wrapsAtAccepted>>

\* -------------------------------------------------------------------- system
Next ==
  \/ setup
  \/ setupWiFi
  \/ setupNTP
  \/ setupNTP_restart
  \/ setupWebServer
  \/ setup_load
  \/ Restart
  \/ \E gap \in PressGaps :
       edges < MaxPresses /\ onButtonPress(gap)
  \/ handleOnButtonPress_test
  \/ handleOnButtonPress_push
  \/ handleOnButtonPress_load
  \/ handleOnButtonPress_store
  \/ handleOnButtonPress_clear
  \/ processFifoBuffer_pop
  \/ processFifoBuffer_doc
  \/ processFifoBuffer_send
  \/ processFifoBuffer_append
  \/ handleRootRequest
  \/ \E a \in Actions : handleServiceModeRequest(a)
  \/ handleServiceModeRequest_remove
  \/ handleServiceModeRequest_zero
  \/ handleServiceModeRequest_send
  \/ wifiConfig_missing
  \/ \E cred \in Credentials, up \in BOOLEAN : wifiConfig(cred, up)

Spec == Init /\ [][Next]_vars

\* The button alone: the interrupt at every gap, against the main task.
NextButton ==
  \/ setup
  \/ setupWiFi
  \/ setupNTP
  \/ setupWebServer
  \/ setup_load
  \/ \E gap \in EdgeGaps :
       edges < MaxEdges /\ onButtonPress(gap)
  \/ handleOnButtonPress_test
  \/ handleOnButtonPress_push
  \/ handleOnButtonPress_load
  \/ handleOnButtonPress_store
  \/ handleOnButtonPress_clear
  \/ processFifoBuffer_pop
  \/ processFifoBuffer_doc
  \/ processFifoBuffer_send
  \/ processFifoBuffer_append

SpecButton == Init /\ [][NextButton]_vars

\* The boot alone: setup() with the restart of setupNTP, up to an idle loop().
NextBoot ==
  \/ setup
  \/ setupWiFi
  \/ setupNTP
  \/ setupNTP_restart
  \/ setupWebServer
  \/ setup_load
  \/ handleOnButtonPress_test
  \/ processFifoBuffer_pop

SpecBoot == Init /\ [][NextBoot]_vars

\* The live viewer: the websocket's connect event against the main task.
NextViewer ==
  \/ setup
  \/ setupWiFi
  \/ setupNTP
  \/ setupWebServer
  \/ setup_load
  \/ \E gap \in PressGaps :
       edges < MaxPresses /\ onButtonPress(gap)
  \/ handleOnButtonPress_test
  \/ handleOnButtonPress_push
  \/ handleOnButtonPress_load
  \/ handleOnButtonPress_store
  \/ handleOnButtonPress_clear
  \/ processFifoBuffer_pop
  \/ processFifoBuffer_doc
  \/ processFifoBuffer_send
  \/ processFifoBuffer_append
  \/ handleWebSocketEvent_connect
  \/ handleWebSocketEvent_open
  \/ handleWebSocketEvent_line

SpecViewer == Init /\ [][NextViewer]_vars

\* ---------------------------------------------------------------- debounce
\* A step of onButtonPress, and the elapsed time it computes.
EdgeStep == edges' = edges + 1
EdgeElapsed == Elapsed(currentInterruptTime', previousInterruptTime)
EdgeAccepted ==
  /\ isPressed'
  /\ previousInterruptTime' = currentInterruptTime'
EdgeIgnored ==
  /\ isPressed' = isPressed
  /\ previousInterruptTime' = previousInterruptTime

\* C1: an edge less than DEBOUNCE_DELAY ms after the last accepted edge is
\* ignored: onButtonPress leaves the pending-press flag and the
\* last-accepted-edge timestamp as they were.
C1_DebounceRejection ==
  [][(EdgeStep /\ Lt32(EdgeElapsed, U32(DEBOUNCE_DELAY))) => EdgeIgnored]_vars

\* An edge has been ignored 100 ms after an accepted one, the flag of which
\* the main task had already cleared.
C1_Witness ==
  /\ acceptedTimes # <<>>
  /\ currentInterruptTime = Add32(previousInterruptTime, U32(100))
  /\ previousInterruptTime = Last(acceptedTimes)
  /\ ~isPressed

\* C2 as stated: an edge at or beyond DEBOUNCE_DELAY ms after the last
\* accepted edge (elapsed >= 250) is accepted: the flag is set and the edge
\* becomes the last accepted one.
C2_AcceptedAtOrBeyond ==
  [][(EdgeStep /\ acceptedTimes # <<>>
        /\ ~Lt32(EdgeElapsed, U32(DEBOUNCE_DELAY))) => EdgeAccepted]_vars

\* C2 as amended: an edge more than DEBOUNCE_DELAY ms after the last accepted
\* edge (elapsed > 250) is accepted: the flag is set and the edge becomes the
\* last accepted one.
C2_AcceptedBeyond ==
  [][(EdgeStep /\ Gt32(EdgeElapsed, U32(DEBOUNCE_DELAY))) => EdgeAccepted]_vars

\* Two accepted edges 251 ms apart.
C2_Witness ==
  /\ Len(acceptedTimes) >= 2
  /\ Last(acceptedTimes) =
       Add32(acceptedTimes[Len(acceptedTimes) - 1], U32(DEBOUNCE_DELAY + 1))
  /\ previousInterruptTime = Last(acceptedTimes)
  /\ isPressed

\* C3: from the boot state with an empty log, edges at 0, 100 and 400 ms, the
\* main task idle at each, give the accepted presses of 0 and 400 ms and a
\* log of two records counting 1 and 2.
C3_ExampleRun ==
  (/\ edgeTimes = <<U32(0), U32(100), U32(400)>>
   /\ quietEdges
   /\ clean
   /\ fsMounted
   /\ Quiescent)
  => (/\ acceptedTimes = <<U32(0), U32(400)>>
      /\ RecordCounts = <<1, 2>>)

\* C4: from a zero baseline, once the main task has quiesced the counter is
\* the number of edges the interrupt accepted, and is the count of the last
\* record.
C4_CounterIsAccepted ==
  (clean /\ Quiescent)
  => (/\ numberOfPresses = Len(acceptedTimes)
      /\ (RecordCounts # <<>> => Last(RecordCounts) = numberOfPresses))

\* The time that has really passed between the last accepted edge and the
\* edge of this step, the wraps of the clock counted: it is below 2^32 ms,
\* and it is above DEBOUNCE_DELAY ms.
TrueElapsedBelowWord ==
  \/ wraps' = wrapsAtAccepted
  \/ /\ wraps' = wrapsAtAccepted + 1
     /\ Lt32(currentInterruptTime', previousInterruptTime)
TrueElapsedExceedsDelay ==
  LET due == Add32(previousInterruptTime, U32(DEBOUNCE_DELAY))
      dueWraps == wrapsAtAccepted
                    + Carry32(previousInterruptTime, U32(DEBOUNCE_DELAY))
  IN  \/ wraps' > dueWraps
      \/ (wraps' = dueWraps /\ Gt32(currentInterruptTime', due))

\* C20: an edge less than 2^32 ms after the last accepted edge is accepted
\* if the time that has really passed since that edge is above DEBOUNCE_DELAY
\* ms, and ignored if it is not, whether or not the clock has wrapped between
\* the two.
C20_DebounceAcrossWrap ==
  [][(EdgeStep /\ acceptedTimes # <<>> /\ TrueElapsedBelowWord)
       => (/\ TrueElapsedExceedsDelay => EdgeAccepted
           /\ ~TrueElapsedExceedsDelay => EdgeIgnored)]_vars

\* An edge has been accepted after the clock had wrapped since the accepted
\* edge before it, and an edge after that ignored.
C20_Witness ==
  /\ Len(acceptedTimes) = 2
  /\ Lt32(acceptedTimes[2], acceptedTimes[1])
  /\ wrapsAtAccepted = 1
  /\ previousInterruptTime = acceptedTimes[2]
  /\ Len(edgeTimes) = 3
  /\ currentInterruptTime # previousInterruptTime

\* C16: onButtonPress writes the flag and the two timestamps and nothing
\* else: it leaves the counter, the queue, the log and every other variable
\* of the program as they were, and on an edge it does not accept (elapsed
\* <= DEBOUNCE_DELAY) the flag and previousInterruptTime as well.
C16_InterruptFrame ==
  [][EdgeStep
       => (/\ UNCHANGED <<numberOfPresses, buttonLog, logFile>>
           /\ UNCHANGED <<flash, isAccessPointMode, mainTask, webTask, viewer>>
           /\ ~Gt32(EdgeElapsed, U32(DEBOUNCE_DELAY)) => EdgeIgnored)]_vars

\* With one press counted and logged, a second edge has been accepted and a
\* third ignored, and the counter and the log are as they were.
C16_Witness ==
  /\ Len(edgeTimes) = 3
  /\ Len(acceptedTimes) = 2
  /\ previousInterruptTime = Last(acceptedTimes)
  /\ currentInterruptTime # previousInterruptTime
  /\ isPressed
  /\ pc = "H_test"
  /\ buttonLog = <<>>
  /\ numberOfPresses = 1
  /\ RecordCounts = <<1>>

\* --------------------------------------------------------------------- log
\* C5: whenever the log holds a record, the count of its last record is the
\* number of records appended since the last reset (or since a first boot
\* with an empty log).
C5_LastCountIsAppended ==
  (clean /\ LogLines # <<>>) => Last(RecordCounts) = sinceReset

\* C17: the buttonPressCount of a record is the value the counter had right
\* after the increment that went with the push of its event.
C17_CountAtCreation ==
  [][(pc = "P_doc" /\ pc' = "P_send")
       => jsonString'[1].count
            = pushedCounts[Len(pushed) - Len(buttonLog)]]_vars

LoadStep == pc = "load" /\ pc' # pc /\ boots' = boots
\* The log gives loadButtonCountFromFile nothing to parse.
LogUnreadable ==
  \/ ~fsMounted
  \/ ~logFile.exists
  \/ logFile.lines = <<>>
  \/ ~IsRecord(Last(logFile.lines))

\* C7: a restart after M >= 1 records have been appended since the last
\* reset loads the counter M.
C7_RestartRecovers ==
  [][(LoadStep /\ clean /\ fsMounted /\ sinceReset >= 1)
       => numberOfPresses' = sinceReset]_vars

\* C8: with the log missing, empty, not to be opened or ending in a line that
\* is no record, setup() loads 0 and goes on to loop(); with the credentials
\* file not to be opened, the read is empty and setup() takes the access
\* point branch.
C8_UnreadableLoadsZero ==
  [][/\ (LoadStep /\ LogUnreadable)
          => (numberOfPresses' = 0 /\ pc' = "H_test")
     /\ (pc = "boot" /\ pc' # pc /\ (~fsMounted \/ ~wifiFile.exists))
          => (isAccessPointMode' /\ pc' = "web")]_vars

\* setup() has just loaded 0 from a log whose only line is no record.
C8_Witness ==
  /\ fsMounted
  /\ logFile.lines = <<Junk>>
  /\ pc = "H_test"
  /\ edges = 0
  /\ numberOfPresses = 0

\* ------------------------------------------------------------------- admin
\* C9: when the reset request is answered (200), the log is empty and the
\* counter is 0.
C9_ResetLeavesEmpty ==
  [][(hpc = "send" /\ response' = 200)
       => (LogLines' = <<>> /\ numberOfPresses' = 0)]_vars

\* C10: a resetWiFi request is answered 200 with the stored credentials
\* cleared.
C10_ResetWiFiClears ==
  request = "resetWiFi"
  => (response = 200 /\ readFileContents(wifiFile) = <<>>)

\* A step in which the web server task takes up, or answers, a request.
WebStep == webTask' # webTask /\ boots' = boots

\* C11: a /serviceMode request with no action, or with an action other than
\* reset and resetWiFi, is answered 400 and leaves the log, the counter, the
\* queue and the stored credentials as they were.
C11_BadActionRejected ==
  [][(WebStep /\ request' \in {"missing", "other"})
       => (/\ response' = 400
           /\ hpc' = "idle"
           /\ UNCHANGED <<logFile, numberOfPresses, buttonLog, wifiFile>>)]_vars

\* An unknown action has been answered 400 with a record in the log, the
\* counter at 1 and credentials stored.
C11_Witness ==
  /\ request = "other"
  /\ response = 400
  /\ hpc = "idle"
  /\ RecordCounts = <<1>>
  /\ numberOfPresses = 1
  /\ readFileContents(wifiFile) # <<>>

\* ------------------------------------------------------------------ viewer
\* The lines the connect event has replayed to the client, in order.
IsReplayed(msg) == ~msg.live
ReplayedLines == [i \in 1 .. Len(SelectSeq(received, IsReplayed)) |->
                    SelectSeq(received, IsReplayed)[i].line]

\* C12: once the connect event has returned, the client has been sent the
\* lines of the log, in file order, ahead of every live event, and no line
\* twice.
C12_ReplayThenLive ==
  wpc = "done"
  => (/\ IsPrefix(ReplayedLines, LogLines)
      /\ \A i, j \in 1 .. Len(received) :
           (i < j /\ received[i].live) => received[j].live
      /\ \A i, j \in 1 .. Len(received) :
           i # j => received[i].line # received[j].line)

\* C14: a reset answered right after another one, with no press and no other
\* request in between, ends as the first is to end: the log empty, the
\* counter 0, the answer 200.
C14_ResetTwice ==
  [][(hpc = "send" /\ hpc' = "idle" /\ resetsInARow >= 1 /\ boots' = boots)
       => (/\ response' = 200
           /\ LogLines' = <<>>
           /\ numberOfPresses' = 0)]_vars

\* A step in which the main task does not move: one of the interrupt, of an
\* HTTP handler or of the websocket's connect event.
OutsideMainStep == pc' = pc /\ boots' = boots

\* C15: the queue, the log and the counter are left as they were by every
\* step outside the main task, and the log file is written by nothing but
\* processFifoBuffer's append.
C15_OnlyMainLoopWrites ==
  [][/\ OutsideMainStep => UNCHANGED <<buttonLog, logFile, numberOfPresses>>
     /\ logFile' # logFile => (pc = "P_append" /\ pc' = "P_test")]_vars

\* -------------------------------------------------------------------- boot
\* The credentials file gives setup() nothing, or credentials the network
\* refuses.
NoValidCredentials == readFileContents(wifiFile) \in {<<>>, <<"bad">>}

\* C13: with no valid credentials stored, setup() goes on in access point
\* mode: it neither goes on to the web server in operational mode nor restarts
\* the device for want of a time synchronisation.
C13_ProvisioningWithoutCredentials ==
  NoValidCredentials
  => (/\ pc = "web" => isAccessPointMode
      /\ ~(pc = "ntp" /\ attempts = MaxAttempts))

\* The main task is past setupNTP().
PastNTP == pc \notin {"boot", "wifi", "ntp"}

\* C19: in operational mode waitForNTPSync makes at most MaxAttempts
\* attempts; the first attempt at which the clock answers ends it and setup()
\* goes on; after MaxAttempts failed attempts, and only then, the device
\* restarts, so that setup() is never past setupNTP() in operational mode
\* without the clock having answered. In access point mode no attempt is made.
C19_SyncOrRestart ==
  /\ [](/\ attempts \in 0 .. MaxAttempts
        /\ (PastNTP /\ ~isAccessPointMode) => ntpSynced
        /\ isAccessPointMode => (attempts = 0 /\ ~ntpSynced))
  /\ [][/\ (pc = "ntp" /\ ntpSynced')
             => (pc' = "web" /\ attempts < MaxAttempts)
        /\ (pc = "ntp" /\ pc' = "ntp")
             => attempts' = attempts + 1
        /\ (pc = "ntp" /\ attempts = MaxAttempts)
             => (pc' = "boot" /\ boots' = boots + 1)
        /\ (pc = "ntp" /\ pc' = "boot")
             => attempts = MaxAttempts]_vars

\* The device has restarted after MaxAttempts failed attempts, and at the
\* second boot the clock has answered and setup() has gone on to loop().
C19_Witness ==
  /\ boots = 2
  /\ ~isAccessPointMode
  /\ ntpSynced
  /\ pc = "H_test"

\* C18: when the client is sent a live event, and the log can be opened,
\* the record of that event is in the log already.
C18_PersistedBeforeBroadcast ==
  [][(/\ fsMounted
      /\ Len(received') = Len(received) + 1
      /\ Last(received').live)
       => \E i \in 1 .. Len(LogLines) : LogLines[i] = Last(received').line]_vars

====
